---- MODULE Spec2Model ----
(***************************************************************************)
(* GENETIS-RHINO: the NSGA-II engine of src/src/Evolver.py (non-dominated  *)
(* sorting, crowding distance, the generational step) over individuals     *)
(* that carry a fitness mapping, as the fixtures of tests/test_Evolver.py  *)
(* do.  Individuals are object identities (naturals); their attributes are *)
(* functions over the identities.  Crowding distances are exact rationals  *)
(* [n, d] with +infinity = 1/0 (the code uses IEEE doubles).               *)
(*                                                                         *)
(* Further specifications cover the binary tournament of Selectors.py      *)
(* (SpecSelect), the objects of WallPair.py, Genotype.py and Phenotype.py  *)
(* on a heap of addresses (SpecGeno), two runs of Genotype.generate from   *)
(* one seed (SpecRuns) and the Manager of Manager.py (SpecManager).  Gene  *)
(* values are integers on a coarse grid; every declared interval           *)
(* [MIN, MAX] is rendered as 0..MaxGene.                                   *)
(***************************************************************************)
EXTENDS Integers, Sequences, FiniteSets, TLC

\* ---------------------------------------------------------------- bounds
\* largest population drawn for a run
MaxPop == 3
\* objective scores are drawn from 0..MaxVal
MaxVal == 2
\* generation indices handed to evolve are drawn from 1..MaxGen
MaxGen == 2
\* gene values lie on the grid 0..MaxGene of a declared interval [MIN, MAX]
MaxGene == 1
\* wall pairs asked of a directly called generate: 0..MaxWalls
MaxWalls == 1
\* sites of one mutate call whose draws differ from those of the other sites
MaxHits == 1
\* mutate calls on one Genotype
MaxMutations == 2
\* cfg.mut_effect_size is drawn from 1..MaxEffect
MaxEffect == 1
\* rates and uniform(0, 1) draws lie on the grid 0..RateScale of [0, 1]
RateScale == 2
\* period of the sequence of uniform draws a seeded Random delivers
StreamLen == 9
\* the same, for the Random of a Manager
ManagerStreamLen == 2

\* ------------------------------------------------------ program constants
\* the objective names of the fixture, in dict insertion order
ObjNames == <<"1", "2", "3">>
\* parameters of NSGATournament.select_one: self, selection_pool, rand
SelectOneParams == 3
\* arguments of the call in NSGA2.evolve: population, rand
SelectOneArgs == 2
\* front size that crowding_distance_assignment treats as all-boundary
num_for_double_front == 2
\* WallPair class constants (lower ends; the upper ends are MaxGene)
MIN_ANGLE == 0
MIN_RIDGE_HEIGHT == 0
MIN_RIDGE_WIDTH_TOP == 0
MIN_RIDGE_WIDTH_BOTTOM == 0
MIN_RIDGE_THICKNESS_TOP == 0
MIN_RIDGE_THICKNESS_BOTTOM == 0
MAX_ANGLE == MaxGene
MAX_RIDGE_HEIGHT == MaxGene
MAX_RIDGE_WIDTH_TOP == MaxGene
MAX_RIDGE_WIDTH_BOTTOM == MaxGene
MAX_RIDGE_THICKNESS_TOP == MaxGene
MAX_RIDGE_THICKNESS_BOTTOM == MaxGene
\* parameters of Genotype.mutate: self, rand
MutateParams == 2
\* arguments of the call in Phenotype.make_offspring: the Genotype,
\* per_site_mut_rate, mut_effect_size, rand
MutateArgs == 4
\* parameters of NSGA2.evolve: self, population, generation_num, rand
EvolveParams == 4
\* arguments of the call in Manager.evolve_one_gen: the NSGA2 instance,
\* self.population, generation_num
EvolveOneGenArgs == 3
\* Manager.initialize_population asks generate for two wall pairs
NumWallPairs == 2
\* Manager.seed
ManagerSeed == 1

VARIABLES
    population,        \* the list handed to evolve / the helpers
    fitness,           \* indiv.fitness: objective name -> score
    nsgaii_rank,       \* indiv.nsgaii_rank   (NoRank: attribute not set)
    nsgaii_distance,   \* indiv.nsgaii_distance (NoDist: attribute not set)
    domination_count,  \* indiv.domination_count
    dominated_set,     \* indiv.dominated_set (a list)
    generation_num,    \* argument of evolve
    fronts,            \* local of evolve / value returned by the sort
    offspring,         \* local of evolve
    new_pop,           \* value returned by evolve
    error,             \* exception that left the call, "" if none
    call,              \* last direct call of a helper and its result
    pc,                \* position of the driver
    heap,              \* the objects: address -> attribute record
    manager,           \* the Manager object
    runs               \* two runs of the generator, side by side

vars == <<population, fitness, nsgaii_rank, nsgaii_distance, domination_count,
          dominated_set, generation_num, fronts, offspring, new_pop, error,
          call, pc, heap, manager, runs>>

\* the variables of the object specifications
objVars == <<heap, manager, runs>>

\* ------------------------------------------------------------- rationals
RECURSIVE GCD(_, _)
GCD(a, b) == IF b = 0 THEN a ELSE GCD(b, a % b)

Rat(n, d) == LET g == GCD(n, d) IN IF g = 0 THEN [n |-> 0, d |-> 1]
                                   ELSE [n |-> n \div g, d |-> d \div g]
\* float("inf")
Inf == [n |-> 1, d |-> 0]
Zero == [n |-> 0, d |-> 1]
NoDist == [n |-> -1, d |-> 0]
NoRank == -1

IsInf(x) == x = Inf
\* x < y for distances (finite non-negative rationals and +infinity)
RLess(x, y) == x.n * y.d < y.n * x.d
\* x + y; inf + y = inf
RAdd(x, y) == IF IsInf(x) \/ IsInf(y) THEN Inf
              ELSE Rat(x.n * y.d + y.n * x.d, x.d * y.d)

\* ------------------------------------------------------------ list tools
\* the value f itself, fully evaluated (an attribute map is a plain dict of
\* values, not a computation to be repeated at every read)
Force(f) == IF f = f THEN f ELSE f

Range(s) == {s[i] : i \in DOMAIN s}
IsInjective(s) == \A i, j \in DOMAIN s : s[i] = s[j] => i = j

\* list.sort: stable; lt holds the index pairs <<j, i>> for which the key of
\* s[j] is strictly before the key of s[i]
StableSort(s, lt) ==
    LET n == Len(s)
        pos(i) == 1 + Cardinality({j \in 1..n :
                        \/ <<j, i>> \in lt
                        \/ (<<i, j>> \notin lt /\ j < i)})
    IN Force([k \in 1..n |-> s[CHOOSE i \in 1..n : pos(i) = k]])

\* ------------------------------------------------------------- dominance
\* the keys of a fitness dict, in insertion order
Keys(f) == SubSeq(ObjNames, 1, Cardinality(DOMAIN f))

\* mutant: any() where the code has all()
RECURSIVE AllLeqAsAny(_, _, _)
AllLeqAsAny(ks, p, q) ==
    IF ks = <<>> THEN FALSE
    ELSE IF p[Head(ks)] <= q[Head(ks)] THEN TRUE ELSE AllLeqAsAny(Tail(ks), p, q)

\* all(p[obj] <= q[obj] for obj in p)
RECURSIVE AllLeq(_, _, _)
AllLeq(ks, p, q) ==
    IF ks = <<>> THEN TRUE
    ELSE IF p[Head(ks)] <= q[Head(ks)] THEN AllLeq(Tail(ks), p, q) ELSE FALSE

\* mutant: <= where the code has <
RECURSIVE AnyLessOrEqual(_, _, _)
AnyLessOrEqual(ks, p, q) ==
    IF ks = <<>> THEN FALSE
    ELSE IF p[Head(ks)] <= q[Head(ks)] THEN TRUE
         ELSE AnyLessOrEqual(Tail(ks), p, q)

\* any(p[obj] < q[obj] for obj in p)
RECURSIVE AnyLess(_, _, _)
AnyLess(ks, p, q) ==
    IF ks = <<>> THEN FALSE
    ELSE IF p[Head(ks)] < q[Head(ks)] THEN TRUE ELSE AnyLess(Tail(ks), p, q)

\* dominates(p, q) on two fitness dicts
DominatesFit(p, q) ==
    LET p_better_or_equal == AllLeq(Keys(p), p, q)
        p_strictly_better == AnyLess(Keys(p), p, q)
    IN p_better_or_equal /\ p_strictly_better

\* dominates(p, q) on two individuals
dominates(p, q) == DominatesFit(fitness[p], fitness[q])

\* ------------------------------------------------ fast_non_dominated_sort
\* first loop: who each individual dominates, and by how many it is dominated
DominatedSetOf(pop, indiv) ==
    SelectSeq(pop, LAMBDA q : q # indiv /\ dominates(indiv, q))

\* mutant: counts every q that is no worse, not only the strictly better
DominationCountWeak(pop, indiv) ==
    Cardinality({j \in DOMAIN pop :
                    /\ pop[j] # indiv
                    /\ AllLeq(Keys(fitness[pop[j]]), fitness[pop[j]], fitness[indiv])})

DominationCountOf(pop, indiv) ==
    Cardinality({j \in DOMAIN pop : /\ pop[j] # indiv
                                    /\ ~dominates(indiv, pop[j])
                                    /\ dominates(pop[j], indiv)})

\* mutant: q.nsgaii_rank = i where the code has i + 1
RECURSIVE ReleaseDominatedSameRank(_, _, _)
ReleaseDominatedSameRank(qs, i, st) ==
    IF qs = <<>> THEN st
    ELSE LET q == Head(qs)
             c == st.count[q] - 1
             st1 == IF c = 0
                    THEN [count |-> [st.count EXCEPT ![q] = c],
                          rank  |-> [st.rank EXCEPT ![q] = i],
                          next_front |-> Append(st.next_front, q)]
                    ELSE [st EXCEPT !.count[q] = c]
         IN ReleaseDominatedSameRank(Tail(qs), i, st1)

\* for q in indiv.dominated_set: decrement, and promote at zero
RECURSIVE ReleaseDominated(_, _, _)
ReleaseDominated(qs, i, st) ==
    IF qs = <<>> THEN st
    ELSE LET q == Head(qs)
             c == st.count[q] - 1
             st1 == IF c = 0
                    THEN [count |-> [st.count EXCEPT ![q] = c],
                          rank  |-> [st.rank EXCEPT ![q] = i + 1],
                          next_front |-> Append(st.next_front, q)]
                    ELSE [st EXCEPT !.count[q] = c]
         IN ReleaseDominated(Tail(qs), i, st1)

\* mutant: a dominated individual is promoted by the first member that
\* releases it, whatever its count
RECURSIVE WalkFrontEager(_, _, _, _)
WalkFrontEager(front, i, dset, st) ==
    IF front = <<>> THEN st
    ELSE WalkFrontEager(Tail(front), i, dset,
             ReleaseDominated(dset[Head(front)], i,
                 [st EXCEPT !.count =
                     [x \in DOMAIN st.count |->
                         IF x \in Range(dset[Head(front)]) THEN 1
                         ELSE st.count[x]]]))

\* for indiv in fronts[i]
RECURSIVE WalkFront(_, _, _, _)
WalkFront(front, i, dset, st) ==
    IF front = <<>> THEN st
    ELSE WalkFront(Tail(front), i, dset,
                   ReleaseDominated(dset[Head(front)], i, st))

\* mutant: "if fronts[i]" where the code has "while fronts[i]"
BuildFrontsOnce(fs, i, dset, count, rank) ==
    IF fs[Len(fs)] = <<>> THEN [fronts |-> fs, count |-> count, rank |-> rank]
    ELSE LET st == WalkFront(fs[Len(fs)], i, dset,
                             [count |-> count, rank |-> rank, next_front |-> <<>>])
         IN [fronts |-> Append(fs, st.next_front), count |-> st.count,
             rank |-> st.rank]

\* while fronts[i]: ...; fs holds fronts[0..i], the last one is fronts[i]
RECURSIVE BuildFronts(_, _, _, _, _)
BuildFronts(fs, i, dset, count, rank) ==
    IF fs[Len(fs)] = <<>> THEN [fronts |-> fs, count |-> count, rank |-> rank]
    ELSE LET st == WalkFront(fs[Len(fs)], i, dset,
                             [count |-> count, rank |-> rank, next_front |-> <<>>])
         IN BuildFronts(Append(fs, st.next_front), i + 1, dset, st.count, st.rank)

\* mutant: return fronts where the code has fronts[:-1]
SortKeepsTrailingFront(pop, rank0, count0, dset0) ==
    LET members == Range(pop)
        dset == Force([x \in DOMAIN dset0 |->
                    IF x \in members THEN DominatedSetOf(pop, x) ELSE dset0[x]])
        count == Force([x \in DOMAIN count0 |->
                    IF x \in members THEN DominationCountOf(pop, x) ELSE count0[x]])
        rank == Force([x \in DOMAIN rank0 |->
                    IF x \in members /\ count[x] = 0 THEN 0 ELSE rank0[x]])
        front0 == SelectSeq(pop, LAMBDA x : count[x] = 0)
        built == BuildFronts(<<front0>>, 0, dset, count, rank)
    IN [fronts |-> built.fronts,
        rank |-> built.rank, count |-> built.count, dset |-> dset]

\* the whole function: the returned fronts and the attributes it leaves
fast_non_dominated_sort(pop, rank0, count0, dset0) ==
    LET members == Range(pop)
        dset == Force([x \in DOMAIN dset0 |->
                    IF x \in members THEN DominatedSetOf(pop, x) ELSE dset0[x]])
        count == Force([x \in DOMAIN count0 |->
                    IF x \in members THEN DominationCountOf(pop, x) ELSE count0[x]])
        rank == Force([x \in DOMAIN rank0 |->
                    IF x \in members /\ count[x] = 0 THEN 0 ELSE rank0[x]])
        front0 == SelectSeq(pop, LAMBDA x : count[x] = 0)
        built == BuildFronts(<<front0>>, 0, dset, count, rank)
    IN [fronts |-> SubSeq(built.fronts, 1, Len(built.fronts) - 1),
        rank |-> built.rank, count |-> built.count, dset |-> dset]

\* ------------------------------------------- crowding_distance_assignment
\* front.sort(key=lambda indiv: indiv.fitness[obj])
SortByObjective(front, obj) ==
    StableSort(front, {ji \in (DOMAIN front) \X (DOMAIN front) :
                          fitness[front[ji[1]]][obj] < fitness[front[ji[2]]][obj]})

\* mutant: the left neighbour's value minus the right neighbour's
GainFromLeft(sorted, i, obj, f_min, f_max) ==
    Rat(fitness[sorted[i - 1]][obj] - fitness[sorted[i + 1]][obj],
        f_max - f_min)

\* (front[i + 1].fitness[obj] - front[i - 1].fitness[obj]) / (f_max - f_min)
Gain(sorted, i, obj, f_min, f_max) ==
    Rat(fitness[sorted[i + 1]][obj] - fitness[sorted[i - 1]][obj],
        f_max - f_min)

\* mutant: only front[0] is made a boundary point, front[-1] is treated as
\* an interior point without a right neighbour
ObjectivePassNoLast(front, dist, obj) ==
    LET sorted == SortByObjective(front, obj)
        n == Len(sorted)
        f_min == fitness[sorted[1]][obj]
        f_max == fitness[sorted[n]][obj]
        bounded == [dist EXCEPT ![sorted[1]] = Inf]
        interior(x) == {i \in 2..(n - 1) : sorted[i] = x}
        gain(i) == Gain(sorted, i, obj, f_min, f_max)
    IN IF f_max = f_min
       THEN [front |-> sorted, dist |-> dist]
       ELSE [front |-> sorted,
             dist |-> Force([x \in DOMAIN dist |->
                         IF interior(x) # {} /\ ~IsInf(bounded[x])
                         THEN RAdd(bounded[x], gain(CHOOSE i \in interior(x) : TRUE))
                         ELSE bounded[x]])]

\* one pass of "for obj in front[0].fitness" over an already zeroed front
ObjectivePass(front, dist, obj) ==
    LET sorted == SortByObjective(front, obj)
        n == Len(sorted)
        f_min == fitness[sorted[1]][obj]
        f_max == fitness[sorted[n]][obj]
        \* boundary points get infinite distance
        bounded == [dist EXCEPT ![sorted[1]] = Inf, ![sorted[n]] = Inf]
        interior(x) == {i \in 2..(n - 1) : sorted[i] = x}
        gain(i) == Gain(sorted, i, obj, f_min, f_max)
    IN IF f_max = f_min
       THEN [front |-> sorted, dist |-> dist]
       ELSE [front |-> sorted,
             dist |-> Force([x \in DOMAIN dist |->
                         IF interior(x) # {} /\ ~IsInf(bounded[x])
                         THEN RAdd(bounded[x], gain(CHOOSE i \in interior(x) : TRUE))
                         ELSE bounded[x]])]

\* mutant: every member tied at the minimum or the maximum of a varying
\* objective is made a boundary point, not only front[0] and front[-1]
RECURSIVE ObjectiveLoopTiedExtremes(_, _, _)
ObjectiveLoopTiedExtremes(objs, front, dist) ==
    IF objs = <<>> THEN [front |-> front, dist |-> dist]
    ELSE LET o == Head(objs)
             r == ObjectivePass(front, dist, o)
             n == Len(r.front)
             f_min == fitness[r.front[1]][o]
             f_max == fitness[r.front[n]][o]
             tied == {x \in Range(front) :
                         f_min # f_max /\ fitness[x][o] \in {f_min, f_max}}
         IN ObjectiveLoopTiedExtremes(Tail(objs), r.front,
                Force([x \in DOMAIN dist |->
                          IF x \in tied THEN Inf ELSE r.dist[x]]))

RECURSIVE ObjectiveLoop(_, _, _)
ObjectiveLoop(objs, front, dist) ==
    IF objs = <<>> THEN [front |-> front, dist |-> dist]
    ELSE LET r == ObjectivePass(front, dist, Head(objs))
         IN ObjectiveLoop(Tail(objs), r.front, r.dist)

\* mutant: no special case for a front of two
CrowdingWithoutDoubleFront(front, dist) ==
    IF Len(front) = 0 THEN [front |-> front, dist |-> dist]
    ELSE IF Len(front) = 1
    THEN [front |-> front, dist |-> [dist EXCEPT ![front[1]] = Inf]]
    ELSE ObjectiveLoop(Keys(fitness[front[1]]), front,
                       Force([x \in DOMAIN dist |->
                           IF x \in Range(front) THEN Zero ELSE dist[x]]))

\* the whole function: the front as it leaves it (sorted in place) and the
\* nsgaii_distance attributes
crowding_distance_assignment(front, dist) ==
    IF Len(front) = 0 THEN [front |-> front, dist |-> dist]
    ELSE IF Len(front) = 1
    THEN [front |-> front, dist |-> [dist EXCEPT ![front[1]] = Inf]]
    ELSE IF Len(front) = num_for_double_front
    THEN [front |-> front,
          dist |-> [dist EXCEPT ![front[1]] = Inf, ![front[2]] = Inf]]
    ELSE ObjectiveLoop(Keys(fitness[front[1]]), front,
                       Force([x \in DOMAIN dist |->
                           IF x \in Range(front) THEN Zero ELSE dist[x]]))

\* for front in fronts: crowding_distance_assignment(front)
RECURSIVE CrowdAll(_, _)
CrowdAll(fs, dist) ==
    IF fs = <<>> THEN [fronts |-> <<>>, dist |-> dist]
    ELSE LET r == crowding_distance_assignment(Head(fs), dist)
             rest == CrowdAll(Tail(fs), r.dist)
         IN [fronts |-> <<r.front>> \o rest.fronts, dist |-> rest.dist]

\* ------------------------------------------------------------ NSGA2.evolve
\* front.sort(key=lambda ind: ind.nsgaii_distance, reverse=True)
SortByDistanceDesc(front, dist) ==
    StableSort(front, {ji \in (DOMAIN front) \X (DOMAIN front) :
                          RLess(dist[front[ji[2]]], dist[front[ji[1]]])})

\* "for front in fronts" of the truncation: the new population and the
\* distances it leaves behind
RECURSIVE TruncateLoop(_, _, _, _)
TruncateLoop(fs, acc, pop_size, dist) ==
    IF fs = <<>> THEN [new_pop |-> acc, dist |-> dist]
    ELSE LET r == crowding_distance_assignment(Head(fs), dist)
         IN IF Len(acc) + Len(r.front) <= pop_size
            THEN TruncateLoop(Tail(fs), acc \o r.front, pop_size, r.dist)
            ELSE LET sorted == SortByDistanceDesc(r.front, r.dist)
                 IN [new_pop |-> acc \o SubSeq(sorted, 1, pop_size - Len(acc)),
                     dist |-> r.dist]

\* a call binds when every positional parameter receives an argument;
\* otherwise Python raises TypeError before the body runs
CallBinds(params, args) == params = args

\* ------------------------------------------------------------------ Init
KeySet(k) == {ObjNames[i] : i \in 1..k}

\* the fixture of tests/test_Evolver.py, setUp
ScenarioScores == << <<10, 20, 30>>, <<20, 10, 30>>, <<30, 20, 10>>,
                     <<100, 200, 300>>, <<200, 100, 300>>, <<999, 999, 999>>,
                     <<15, 15, 25>> >>
ScenarioFitness ==
    [i \in 1..Len(ScenarioScores) |->
        [o \in KeySet(Len(ObjNames)) |->
            ScenarioScores[i][CHOOSE j \in 1..Len(ObjNames) : ObjNames[j] = o]]]

InitAttrs ==
    /\ population = [i \in DOMAIN fitness |-> i]
    /\ nsgaii_rank = [i \in DOMAIN fitness |-> NoRank]
    /\ nsgaii_distance = [i \in DOMAIN fitness |-> NoDist]
    /\ domination_count = [i \in DOMAIN fitness |-> 0]
    /\ dominated_set = [i \in DOMAIN fitness |-> <<>>]
    /\ generation_num = 0
    /\ fronts = <<>>
    /\ offspring = <<>>
    /\ new_pop = <<>>
    /\ error = ""
    /\ call = [fn |-> "", p |-> 0, q |-> 0, val |-> FALSE]
    /\ pc = "start"

\* no Manager has been constructed
NoManager ==
    [population |-> <<>>, seed |-> 0, selection_scheme |-> "",
     rand |-> [stream |-> <<>>, pos |-> 0]]

\* the object specifications at rest: no object, no Manager, no run
IdleObjects ==
    /\ heap = <<>>
    /\ manager = NoManager
    /\ runs = <<>>

Init ==
    /\ \/ \E n \in 0..MaxPop, k \in 1..Len(ObjNames) :
              fitness \in [1..n -> [KeySet(k) -> 0..MaxVal]]
       \/ fitness = ScenarioFitness
    /\ InitAttrs
    /\ IdleObjects

\* --------------------------------------------------------------- actions
\* a direct call dominates(p, q), as in test_dominates
CallDominates(p, q) ==
    /\ pc = "start"
    /\ call' = [fn |-> "dominates", p |-> p, q |-> q, val |-> dominates(p, q)]
    /\ pc' = "called"
    /\ UNCHANGED objVars
    /\ UNCHANGED <<population, fitness, nsgaii_rank, nsgaii_distance,
                   domination_count, dominated_set, generation_num, fronts,
                   offspring, new_pop, error>>

\* a direct call crowding_distance_assignment(population[:k])
CallCrowding(k) ==
    /\ pc = "start"
    /\ LET r == crowding_distance_assignment(SubSeq(population, 1, k),
                                             nsgaii_distance)
       IN /\ nsgaii_distance' = r.dist
          /\ fronts' = <<r.front>>
    /\ call' = [fn |-> "crowding_distance_assignment", p |-> k, q |-> 0,
                val |-> FALSE]
    /\ pc' = "called"
    /\ UNCHANGED objVars
    /\ UNCHANGED <<population, fitness, nsgaii_rank, domination_count,
                   dominated_set, generation_num, offspring, new_pop, error>>

\* a direct call fast_non_dominated_sort(population), as in
\* test_fast_non_dominated_sort
CallSort ==
    /\ pc = "start"
    /\ LET r == fast_non_dominated_sort(population, nsgaii_rank,
                                        domination_count, dominated_set)
       IN /\ fronts' = r.fronts
          /\ nsgaii_rank' = r.rank
          /\ domination_count' = r.count
          /\ dominated_set' = r.dset
    /\ call' = [fn |-> "fast_non_dominated_sort", p |-> 0, q |-> 0, val |-> FALSE]
    /\ pc' = "sorted"
    /\ UNCHANGED objVars
    /\ UNCHANGED <<population, fitness, nsgaii_distance, generation_num,
                   offspring, new_pop, error>>

\* then crowding_distance_assignment on every returned front, as in
\* test_crowding_distance_assignment
CallCrowdFronts ==
    /\ pc = "sorted"
    /\ LET r == CrowdAll(fronts, nsgaii_distance)
       IN /\ fronts' = r.fronts
          /\ nsgaii_distance' = r.dist
    /\ pc' = "crowded"
    /\ UNCHANGED objVars
    /\ UNCHANGED <<population, fitness, nsgaii_rank, domination_count,
                   dominated_set, generation_num, offspring, new_pop, error,
                   call>>

\* evolve, "Assign ranks and distances"
EvolveRank(g) ==
    /\ pc = "start"
    /\ generation_num' = g
    /\ LET r == fast_non_dominated_sort(population, nsgaii_rank,
                                        domination_count, dominated_set)
           c == CrowdAll(r.fronts, nsgaii_distance)
       IN /\ fronts' = c.fronts
          /\ nsgaii_rank' = r.rank
          /\ domination_count' = r.count
          /\ dominated_set' = r.dset
          /\ nsgaii_distance' = c.dist
    /\ pc' = "ranked"
    /\ UNCHANGED objVars
    /\ UNCHANGED <<population, fitness, offspring, new_pop, error, call>>

\* evolve, "Generate offspring": range(0) runs no iteration; otherwise the
\* first iteration calls NSGATournament.select_one(population, rand) on the
\* class, one argument short of its parameters, and the TypeError leaves evolve
EvolveOffspring ==
    /\ pc = "ranked"
    /\ Len(population) = 0 \/ ~CallBinds(SelectOneParams, SelectOneArgs)
    /\ IF Len(population) = 0
       THEN /\ pc' = "bred"
            /\ error' = error
       ELSE /\ pc' = "raised"
            /\ error' = "TypeError"
    /\ offspring' = <<>>
    /\ UNCHANGED objVars
    /\ UNCHANGED <<population, fitness, nsgaii_rank, nsgaii_distance,
                   domination_count, dominated_set, generation_num, fronts,
                   new_pop, call>>

\* evolve, "Combine parents + offspring" and "Re-sort and truncate"
EvolveTruncate ==
    /\ pc = "bred"
    /\ LET pop_size == Len(population)
           combined == population \o offspring
           r == fast_non_dominated_sort(combined, nsgaii_rank,
                                        domination_count, dominated_set)
           t == TruncateLoop(r.fronts, <<>>, pop_size, nsgaii_distance)
       IN /\ fronts' = r.fronts
          /\ nsgaii_rank' = r.rank
          /\ domination_count' = r.count
          /\ dominated_set' = r.dset
          /\ nsgaii_distance' = t.dist
          /\ new_pop' = t.new_pop
    /\ pc' = "returned"
    /\ UNCHANGED objVars
    /\ UNCHANGED <<population, fitness, generation_num, offspring, error, call>>

Next ==
    \/ \E p, q \in Range(population) : CallDominates(p, q)
    \/ \E k \in 0..Len(population) : CallCrowding(k)
    \/ CallSort
    \/ CallCrowdFronts
    \/ \E g \in 1..MaxGen : EvolveRank(g)
    \/ EvolveOffspring
    \/ EvolveTruncate

Spec == Init /\ [][Next]_vars

TypeOK ==
    /\ IsInjective(population)
    /\ pc \in {"start", "called", "sorted", "crowded", "ranked", "bred",
               "raised", "returned"}
    /\ error \in {"", "TypeError"}
    /\ \A i \in DOMAIN nsgaii_rank : nsgaii_rank[i] \in Nat \cup {NoRank}

\* ======================================================= Selectors.py
\* rand.sample(selection_pool, 2) needs a pool of at least two
SampleSize == 2

\* the variables the tournament leaves alone
sortVars == <<fitness, domination_count, dominated_set, generation_num,
              fronts, offspring, new_pop>>

\* ranks and crowding distances a ranked pool can carry
RankSet == 0..MaxVal
DistSet == {Rat(k, 1) : k \in 0..MaxVal} \cup {Inf}

\* mutant: the higher rank wins the tournament
SelectHigherRank(i1, i2, choice) ==
    IF nsgaii_rank[i1] > nsgaii_rank[i2] THEN i1
    ELSE IF nsgaii_rank[i2] > nsgaii_rank[i1] THEN i2
    ELSE IF RLess(nsgaii_distance[i2], nsgaii_distance[i1]) THEN i1
    ELSE IF RLess(nsgaii_distance[i1], nsgaii_distance[i2]) THEN i2
    ELSE choice

\* NSGATournament.select_one once rand.sample has delivered i1, i2; choice is
\* what rand.choice([i1, i2]) delivers if it is asked
select_one(i1, i2, choice) ==
    IF nsgaii_rank[i1] < nsgaii_rank[i2] THEN i1
    ELSE IF nsgaii_rank[i2] < nsgaii_rank[i1] THEN i2
    ELSE IF RLess(nsgaii_distance[i2], nsgaii_distance[i1]) THEN i1
    ELSE IF RLess(nsgaii_distance[i1], nsgaii_distance[i2]) THEN i2
    ELSE choice

\* a pool of ranked individuals, as the mocks of tests/test_Selectors.py
SelectInit ==
    /\ \E n \in 0..MaxPop :
          /\ population = [i \in 1..n |-> i]
          /\ nsgaii_rank \in [1..n -> RankSet]
          /\ nsgaii_distance \in [1..n -> DistSet]
    /\ fitness = <<>>
    /\ domination_count = <<>>
    /\ dominated_set = <<>>
    /\ generation_num = 0
    /\ fronts = <<>>
    /\ offspring = <<>>
    /\ new_pop = <<>>
    /\ error = ""
    /\ call = [fn |-> "", sample |-> <<>>, choice |-> 0, val |-> 0]
    /\ pc = "start"
    /\ IdleObjects

\* selector.select_one(population, rand) on an NSGATournament instance: s1, s2
\* are the positions rand.sample draws, c the position rand.choice would pick
SelectOne ==
    /\ pc = "start"
    /\ IF Len(population) < SampleSize
       THEN /\ error' = "ValueError"
            /\ call' = [call EXCEPT !.fn = "select_one"]
            /\ pc' = "raised"
       ELSE \E s1, s2 \in DOMAIN population, c \in 1..SampleSize :
               /\ s1 # s2
               /\ LET sample == <<population[s1], population[s2]>>
                      tie == /\ nsgaii_rank[sample[1]] = nsgaii_rank[sample[2]]
                             /\ nsgaii_distance[sample[1]]
                                    = nsgaii_distance[sample[2]]
                  IN call' = [fn |-> "select_one", sample |-> sample,
                              choice |-> IF tie THEN sample[c] ELSE 0,
                              val |-> select_one(sample[1], sample[2],
                                                 sample[c])]
               /\ error' = error
               /\ pc' = "selected"
    /\ UNCHANGED <<population, nsgaii_rank, nsgaii_distance>>
    /\ UNCHANGED sortVars
    /\ UNCHANGED objVars

SelectNext == SelectOne

SpecSelect == SelectInit /\ [][SelectNext]_vars

\* ============================= WallPair.py, Genotype.py, Phenotype.py
\* ------------------------------------------------------------- values
\* max(a, b) and min(a, b) of Python: the first argument wins a tie
PyMax(a, b) == IF b > a THEN b ELSE a
PyMin(a, b) == IF b < a THEN b ELSE a

\* the element of a one-element set: a value computed once and then named
Only(S) == CHOOSE x \in S : TRUE

\* identifiers: str(i), the int i, and the string "None"
StrId(i) == [kind |-> "str", v |-> i]
IntId(i) == [kind |-> "int", v |-> i]
NoneText == [kind |-> "str", v |-> -1]

\* an optional list argument: None, or a list of items
NoneList == [is_none |-> TRUE, items |-> <<>>]
List(items) == [is_none |-> FALSE, items |-> items]

\* a ParametersObject
Cfg(rate, effect, pop_size, scheme) ==
    [per_site_mut_rate |-> rate, mut_effect_size |-> effect,
     population_size |-> pop_size, selection_scheme |-> scheme,
     MIN_HEIGHT |-> 0, MAX_HEIGHT |-> MaxGene,
     MIN_WAVEGUIDE_HEIGHT |-> 0, MAX_WAVEGUIDE_HEIGHT |-> MaxGene,
     MIN_WAVEGUIDE_LENGTH |-> 0, MAX_WAVEGUIDE_LENGTH |-> MaxGene]

\* per_site_mut_rate 0.0 and 1.0
RateSet == {0, RateScale}
EffectSet == 1..MaxEffect

\* ---------------------------------------------------------- the RNG
\* the sequences a seeded Random can deliver, read cyclically; a sequence of
\* zeros only would keep generate_with_ridge drawing for ever
SeedStreams(len) ==
    {s \in [1..len -> 0..MaxGene] : \E i \in 1..len : s[i] # 0}
At(stream, pos) == stream[((pos - 1) % Len(stream)) + 1]

\* rand.uniform(lo, hi) = lo + (hi - lo) * random(), random() = draw / MaxGene
uniform(lo, hi, draw) == lo + ((hi - lo) * draw) \div MaxGene
\* rand.gauss(mu, sigma) = mu + sigma * z
gauss(mu, sigma, z) == mu + sigma * z

\* ------------------------------------------------------- WallPair.py
\* WallPair.__init__
WallPair(angle, ridge_height, ridge_width_top, ridge_width_bottom, ridge_thickness_top, ridge_thickness_bottom) ==
    [cls |-> "WallPair", has_ridge |-> FALSE, angle |-> angle,
     ridge_height |-> ridge_height, ridge_width_top |-> ridge_width_top,
     ridge_width_bottom |-> ridge_width_bottom,
     ridge_thickness_top |-> ridge_thickness_top,
     ridge_thickness_bottom |-> ridge_thickness_bottom]

\* the keyword parameters WallPair.__init__ accepts
WallPairInitParams ==
    {"angle", "ridge_height", "ridge_width_top", "ridge_width_bottom",
     "ridge_thickness_top", "ridge_thickness_bottom"}
\* keyword arguments bind when each names a parameter; otherwise TypeError
KeywordsBind(params, keywords) == keywords \subseteq params

\* __WallPair.__init__ (src/src/__WallPair.py)
LegacyWallPair(width, angle, has_ridge, ridge_width, ridge_height, ridge_thickness) ==
    [cls |-> "__WallPair", width |-> width, angle |-> angle,
     has_ridge |-> has_ridge, ridge_width |-> ridge_width,
     ridge_height |-> ridge_height, ridge_thickness |-> ridge_thickness]

\* the draws start at position pos of the stream; the result carries the
\* position after the last draw
generate_without_ridge(stream, pos) ==
    [wp |-> WallPair(
        uniform(MIN_ANGLE, MAX_ANGLE, At(stream, pos)),
        uniform(MIN_RIDGE_HEIGHT, MAX_RIDGE_HEIGHT, At(stream, pos + 1)),
        uniform(MIN_RIDGE_WIDTH_TOP, MAX_RIDGE_WIDTH_TOP, At(stream, pos + 2)),
        uniform(MIN_RIDGE_WIDTH_BOTTOM, MAX_RIDGE_WIDTH_BOTTOM,
                At(stream, pos + 3)),
        uniform(MIN_RIDGE_THICKNESS_TOP, MAX_RIDGE_THICKNESS_TOP,
                At(stream, pos + 4)),
        uniform(MIN_RIDGE_THICKNESS_BOTTOM, MAX_RIDGE_THICKNESS_BOTTOM,
                At(stream, pos + 5))),
     pos |-> pos + 6]

\* while v == 0: v = rand.uniform(lo, hi)
RECURSIVE RedrawWhileZero(_, _, _, _, _)
RedrawWhileZero(v, lo, hi, stream, pos) ==
    IF v # 0 THEN [v |-> v, pos |-> pos]
    ELSE RedrawWhileZero(uniform(lo, hi, At(stream, pos)), lo, hi, stream,
                         pos + 1)

generate_with_ridge(stream, pos) ==
    LET g == generate_without_ridge(stream, pos)
        rh == RedrawWhileZero(g.wp.ridge_height, MIN_RIDGE_HEIGHT,
                              MAX_RIDGE_HEIGHT, stream, g.pos)
        wt == RedrawWhileZero(g.wp.ridge_width_top, MIN_RIDGE_WIDTH_TOP,
                              MAX_RIDGE_WIDTH_TOP, stream, rh.pos)
        wb == RedrawWhileZero(g.wp.ridge_width_bottom, MIN_RIDGE_WIDTH_BOTTOM,
                              MAX_RIDGE_WIDTH_BOTTOM, stream, wt.pos)
        tt == RedrawWhileZero(g.wp.ridge_thickness_top,
                              MIN_RIDGE_THICKNESS_TOP,
                              MAX_RIDGE_THICKNESS_TOP, stream, wb.pos)
        tb == RedrawWhileZero(g.wp.ridge_thickness_bottom,
                              MIN_RIDGE_THICKNESS_BOTTOM,
                              MAX_RIDGE_THICKNESS_BOTTOM, stream, tt.pos)
    IN [wp |-> [g.wp EXCEPT !.ridge_height = rh.v,
                            !.ridge_width_top = wt.v,
                            !.ridge_width_bottom = wb.v,
                            !.ridge_thickness_top = tt.v,
                            !.ridge_thickness_bottom = tb.v,
                            !.has_ridge = TRUE],
        pos |-> tb.pos]

\* the loop of generate_list from wall i on: coins[i] is what the module-level
\* random.randint(0, 1) delivers for wall i, the other draws come from stream
RECURSIVE GenerateWalls(_, _, _, _, _)
GenerateWalls(i, num_wall_pairs, stream, pos, coins) ==
    IF i > num_wall_pairs THEN [walls |-> <<>>, pos |-> pos]
    ELSE LET w == IF coins[i] = 0 THEN generate_without_ridge(stream, pos)
                  ELSE generate_with_ridge(stream, pos)
             rest == GenerateWalls(i + 1, num_wall_pairs, stream, w.pos, coins)
         IN [walls |-> <<w.wp>> \o rest.walls, pos |-> rest.pos]

generate_list(num_wall_pairs, stream, pos, coins) ==
    IF num_wall_pairs <= 0
    THEN [error |-> "ValueError", walls |-> <<>>, pos |-> pos]
    ELSE LET r == GenerateWalls(1, num_wall_pairs, stream, pos, coins)
         IN [error |-> "", walls |-> r.walls, pos |-> r.pos]

\* ------------------------------------------------------- Genotype.py
IsWallPair(h, x) == x \in DOMAIN h /\ h[x].cls = "WallPair"

\* mutant: any() where the code has all()
AllWallPairsAsAny(h, items) ==
    \E i \in DOMAIN items : IsWallPair(h, items[i])

\* all(isinstance(wall_pair, WallPair) for wall_pair in walls)
AllWallPairs(h, items) ==
    \A i \in DOMAIN items : IsWallPair(h, items[i])

\* Genotype.__init__ on heap h: the new object is appended, or ValueError
GenotypeInit(h, cfg, height, waveguide_height, waveguide_length, walls) ==
    IF ~walls.is_none /\ ~AllWallPairs(h, walls.items)
    THEN [error |-> "ValueError", heap |-> h, obj |-> 0]
    ELSE [error |-> "",
          heap |-> Append(h, [cls |-> "Genotype", cfg |-> cfg,
                              height |-> height,
                              waveguide_height |-> waveguide_height,
                              waveguide_length |-> waveguide_length,
                              walls |-> walls]),
          obj |-> Len(h) + 1]

\* Genotype.generate up to the constructor call of its last line: the drawn
\* values, the wall pairs in order, and the stream position reached
generate(cfg, num_wall_pairs, stream, pos, coins) ==
    LET height == uniform(cfg.MIN_HEIGHT, cfg.MAX_HEIGHT, At(stream, pos))
        waveguide_height == uniform(cfg.MIN_WAVEGUIDE_HEIGHT,
                                    cfg.MAX_WAVEGUIDE_HEIGHT,
                                    At(stream, pos + 1))
        waveguide_length == uniform(cfg.MIN_WAVEGUIDE_LENGTH,
                                    cfg.MAX_WAVEGUIDE_LENGTH,
                                    At(stream, pos + 2))
        w == generate_list(num_wall_pairs, stream, pos + 3, coins)
    IN [error |-> w.error, height |-> height,
        waveguide_height |-> waveguide_height,
        waveguide_length |-> waveguide_length,
        walls |-> w.walls, pos |-> w.pos]

\* the wall pairs of a generated value become objects, then
\* Genotype(self.cfg, height, waveguide_height, waveguide_length, walls)
StoreGenotype(h, cfg, g) ==
    LET stored == h \o g.walls
        addrs == [i \in 1..Len(g.walls) |-> Len(h) + i]
    IN GenotypeInit(stored, cfg, g.height, g.waveguide_height,
                    g.waveguide_length, List(addrs))

CoreGenes == <<"height", "waveguide_height", "waveguide_length">>
WallPairGenes == <<"angle", "ridge_height", "ridge_width_top",
                   "ridge_width_bottom", "ridge_thickness_top",
                   "ridge_thickness_bottom">>

\* "if per_site_mut_rate >= rand.uniform(0, 1)"; draw.u is the uniform draw on
\* the grid of rates
Hit(rate, draw) == rate >= draw.u

\* "for gene in core_genes", from the gene of draws[i] on
RECURSIVE MutateCore(_, _, _, _)
MutateCore(g, genes, draws, i) ==
    IF genes = <<>> THEN g
    ELSE LET gene == Head(genes)
             delta == gauss(0, g.cfg.mut_effect_size, draws[i].z)
             g1 == IF ~Hit(g.cfg.per_site_mut_rate, draws[i]) THEN g
                   ELSE IF gene = "height"
                   THEN [g EXCEPT !.height =
                            PyMin(PyMax(@ + delta, g.cfg.MIN_HEIGHT),
                                  g.cfg.MAX_HEIGHT)]
                   ELSE IF gene = "waveguide_height"
                   THEN [g EXCEPT !.waveguide_height =
                            PyMin(PyMax(@ + delta, g.cfg.MIN_WAVEGUIDE_HEIGHT),
                                  g.cfg.MAX_WAVEGUIDE_HEIGHT)]
                   ELSE [g EXCEPT !.waveguide_length =
                            PyMin(PyMax(@ + delta, g.cfg.MIN_WAVEGUIDE_LENGTH),
                                  g.cfg.MAX_WAVEGUIDE_LENGTH)]
         IN MutateCore(g1, Tail(genes), draws, i + 1)

\* the body of "if per_site_mut_rate >= rand.uniform(0, 1)" of _mutate_walls
\* for one gene.  ridge_height: the sum is stored, then wp.MIN_HEIGHT is read,
\* which neither WallPair nor its instances define (the class constant is
\* MIN_RIDGE_HEIGHT): AttributeError.  ridge_thickness_bottom: the lower clamp
\* is stored in ridge_thickness_bottom, the upper clamp in ridge_width_bottom.
MutateWallGene(wp, gene, delta) ==
    IF gene = "angle"
    THEN [error |-> "",
          wp |-> [wp EXCEPT !.angle =
                     PyMin(PyMax(@ + delta, MIN_ANGLE), MAX_ANGLE)]]
    ELSE IF gene = "ridge_height"
    THEN [error |-> "AttributeError",
          wp |-> [wp EXCEPT !.ridge_height = @ + delta]]
    ELSE IF gene = "ridge_width_top"
    THEN [error |-> "",
          wp |-> [wp EXCEPT !.ridge_width_top =
                     PyMin(PyMax(@ + delta, MIN_RIDGE_WIDTH_TOP),
                           MAX_RIDGE_WIDTH_TOP)]]
    ELSE IF gene = "ridge_width_bottom"
    THEN [error |-> "",
          wp |-> [wp EXCEPT !.ridge_width_bottom =
                     PyMin(PyMax(@ + delta, MIN_RIDGE_WIDTH_BOTTOM),
                           MAX_RIDGE_WIDTH_BOTTOM)]]
    ELSE IF gene = "ridge_thickness_top"
    THEN [error |-> "",
          wp |-> [wp EXCEPT !.ridge_thickness_top =
                     PyMin(PyMax(@ + delta, MIN_RIDGE_THICKNESS_TOP),
                           MAX_RIDGE_THICKNESS_TOP)]]
    ELSE LET raised == PyMax(wp.ridge_thickness_bottom + delta,
                             MIN_RIDGE_THICKNESS_BOTTOM)
         IN [error |-> "",
             wp |-> [wp EXCEPT !.ridge_thickness_bottom = raised,
                               !.ridge_width_bottom =
                                   PyMin(raised, MAX_RIDGE_THICKNESS_BOTTOM)]]

\* "for gene in wallpair_genes" on one wall pair, from the gene of draws[i] on;
\* an exception leaves the loop
RECURSIVE MutateWallGenes(_, _, _, _, _, _)
MutateWallGenes(wp, genes, rate, effect, draws, i) ==
    IF genes = <<>> THEN [error |-> "", wp |-> wp]
    ELSE IF ~Hit(rate, draws[i])
    THEN MutateWallGenes(wp, Tail(genes), rate, effect, draws, i + 1)
    ELSE LET r == MutateWallGene(wp, Head(genes), gauss(0, effect, draws[i].z))
         IN IF r.error # "" THEN r
            ELSE MutateWallGenes(r.wp, Tail(genes), rate, effect, draws, i + 1)

\* _mutate_walls: "for wp in walls", the wall pairs mutated in place
RECURSIVE mutate_walls(_, _, _, _, _, _)
mutate_walls(h, walls, rate, effect, draws, i) ==
    IF walls = <<>> THEN [error |-> "", heap |-> h]
    ELSE LET a == Head(walls)
             r == MutateWallGenes(h[a], WallPairGenes, rate, effect, draws, i)
             h1 == [h EXCEPT ![a] = r.wp]
         IN IF r.error # "" THEN [error |-> r.error, heap |-> h1]
            ELSE mutate_walls(h1, Tail(walls), rate, effect, draws,
                              i + Len(WallPairGenes))

\* Genotype.mutate(rand) on the Genotype at address self
mutate(h, self, draws) ==
    LET g == MutateCore(h[self], CoreGenes, draws, 1)
        h1 == [h EXCEPT ![self] = g]
    IN IF g.walls.is_none THEN [error |-> "TypeError", heap |-> h1]
       ELSE mutate_walls(h1, g.walls.items, g.cfg.per_site_mut_rate,
                         g.cfg.mut_effect_size, draws, Len(CoreGenes) + 1)

\* the sites of a Genotype
GeneCount(h, self) ==
    Len(CoreGenes) + Len(WallPairGenes) * Len(h[self].walls.items)

\* the sets of at most k sites out of 1..n
RECURSIVE HitSets(_, _)
HitSets(n, k) ==
    IF k = 0 THEN {{}}
    ELSE LET smaller == HitSets(n, k - 1)
         IN smaller \cup {H \cup {i} : H \in smaller, i \in 1..n}

\* what the RNG delivers to one mutate call, per site: u for uniform(0, 1) and
\* z for gauss.  The sites of a hit set draw u = 0.0 and a gauss of one sign,
\* the other sites draw the largest u and a gauss of the other sign, which is
\* read only where the rate lets the largest u hit as well
MutationDraws(n) ==
    {[i \in 1..n |-> IF i \in Hs[1] THEN [u |-> 0, z |-> Hs[2]]
                      ELSE [u |-> RateScale - 1, z |-> 0 - Hs[2]]] :
        Hs \in HitSets(n, MaxHits) \X {-1, 1}}

\* ------------------------------------------------------ Phenotype.py
\* Phenotype.__init__
Phenotype(genotype, indv_id, parent_id, generation_created) ==
    [cls |-> "Phenotype", genotype |-> genotype, indv_id |-> indv_id,
     parent_id |-> parent_id, generation_created |-> generation_created,
     fitness_score |-> "None"]

\* copy.deepcopy(self) of a Phenotype: the Phenotype, its Genotype and each
\* wall pair of its list are copied once, to fresh addresses
deepcopy(h, self) ==
    LET g == h[self].genotype
        ws == h[g].walls.items
        firsts == {i \in DOMAIN ws : \A j \in 1..(i - 1) : ws[j] # ws[i]}
        rank(i) == Cardinality({j \in firsts : j <= i})
        first(a) == CHOOSE i \in firsts : ws[i] = a
        base == Len(h) + 2
        copies == [r \in 1..Cardinality(firsts) |->
                      h[ws[CHOOSE i \in firsts : rank(i) = r]]]
        new_walls == [i \in DOMAIN ws |-> base + rank(first(ws[i]))]
        new_g == [h[g] EXCEPT !.walls =
                     IF @.is_none THEN @ ELSE List(new_walls)]
        new_p == [h[self] EXCEPT !.genotype = Len(h) + 2]
    IN [heap |-> (h \o <<new_p, new_g>>) \o copies, copy |-> Len(h) + 1]

\* mutant: the offspring is the parent itself, not a copy
MakeOffspringInPlace(h, self, new_id) ==
    [heap |-> [h EXCEPT ![self].parent_id = h[self].indv_id,
                        ![self].indv_id = new_id],
     offspring |-> self]

\* make_offspring up to the call offspring.genotype.mutate(...)
make_offspring(h, self, new_id) ==
    LET c == deepcopy(h, self)
    IN [heap |-> [c.heap EXCEPT ![c.copy].parent_id = h[self].indv_id,
                                ![c.copy].indv_id = new_id],
        offspring |-> c.copy]

\* -------------------------------------------- the object specification
\* the variables of the NSGA-II engine, unused by the objects
engineVars == <<population, fitness, nsgaii_rank, nsgaii_distance,
                domination_count, dominated_set, generation_num, fronts,
                offspring, new_pop>>

IdleEngine ==
    /\ population = <<>>
    /\ fitness = <<>>
    /\ nsgaii_rank = <<>>
    /\ nsgaii_distance = <<>>
    /\ domination_count = <<>>
    /\ dominated_set = <<>>
    /\ generation_num = 0
    /\ fronts = <<>>
    /\ offspring = <<>>
    /\ new_pop = <<>>

\* call: the last call (fn), the object it was made on or returned (obj), the
\* mutate calls made so far (muts) and the arguments of a constructor (args)
GenoInit ==
    /\ IdleEngine
    /\ heap = <<>>
    /\ manager = NoManager
    /\ runs = <<>>
    /\ error = ""
    /\ call = [fn |-> "", obj |-> 0, muts |-> 0, args |-> <<>>]
    /\ pc = "start"

\* the configurations tried: both ends of the rate interval, every effect size
GenoCfgs == {Cfg(r, e, 0, "NSGAII") : r \in RateSet, e \in EffectSet}

\* g = Genotype(cfg).generate(num_wall_pairs, rand), as in test_generate;
\* stream is what rand delivers, coins what the module-level random delivers
Generate ==
    /\ pc = "start"
    /\ \E cfg \in GenoCfgs, num_wall_pairs \in 0..MaxWalls,
          stream \in SeedStreams(StreamLen) :
          \E coins \in [1..num_wall_pairs -> 0..1] :
             \E g \in {generate(cfg, num_wall_pairs, stream, 1, coins)} :
                IF g.error # ""
                THEN /\ error' = g.error
                     /\ heap' = heap
                     /\ call' = [call EXCEPT !.fn = "generate"]
                     /\ pc' = "raised"
                ELSE \E r \in {StoreGenotype(heap, cfg, g)} :
                        /\ error' = r.error
                        /\ heap' = r.heap
                        /\ call' = [call EXCEPT !.fn = "generate",
                                                !.obj = r.obj]
                        /\ pc' = "generated"
    /\ UNCHANGED <<manager, runs>>
    /\ UNCHANGED engineVars

\* g.mutate(rand); an exception of one call does not keep the caller from
\* calling again
Mutate ==
    /\ pc = "generated"
    /\ call.muts < MaxMutations
    /\ \E draws \in MutationDraws(GeneCount(heap, call.obj)) :
          \E r \in {mutate(heap, call.obj, draws)} :
             /\ heap' = r.heap
             /\ error' = r.error
             /\ call' = [call EXCEPT !.fn = "mutate", !.muts = @ + 1,
                                     !.args = draws]
    /\ pc' = "generated"
    /\ UNCHANGED <<manager, runs>>
    /\ UNCHANGED engineVars

\* p = Phenotype(g, str(0), "None", 0), as Manager.initialize_population does
NewPhenotype ==
    /\ pc = "generated"
    /\ heap' = Append(heap, Phenotype(call.obj, StrId(0), NoneText, 0))
    /\ call' = [call EXCEPT !.fn = "Phenotype", !.obj = Len(heap) + 1]
    /\ error' = ""
    /\ pc' = "wrapped"
    /\ UNCHANGED <<manager, runs>>
    /\ UNCHANGED engineVars

\* p.make_offspring(new_id, per_site_mut_rate, mut_effect_size, rand): the
\* copy is made and labelled, then offspring.genotype.mutate is called with
\* three arguments where Genotype.mutate takes rand only, and the TypeError
\* leaves make_offspring; the copy stays behind as a local of the failed call
MakeOffspring ==
    /\ pc = "wrapped"
    /\ ~CallBinds(MutateParams, MutateArgs)
    /\ \E new_id \in 1..MaxGen :
          LET r == make_offspring(heap, call.obj, IntId(new_id))
          IN /\ heap' = r.heap
             /\ call' = [call EXCEPT !.fn = "make_offspring",
                                     !.args = <<r.offspring>>]
    /\ error' = "TypeError"
    /\ pc' = "raised"
    /\ UNCHANGED <<manager, runs>>
    /\ UNCHANGED engineVars

\* WallPair(angle, ..., ridge_thickness_bottom), with has_ridge=True as a
\* further keyword argument when a ridge is requested: __init__ has no such
\* parameter
ConstructWallPair ==
    /\ pc = "start"
    /\ \E dims \in [1..6 -> 0..MaxGene], has_ridge \in BOOLEAN :
          LET binds == KeywordsBind(WallPairInitParams,
                                    IF has_ridge THEN {"has_ridge"} ELSE {})
          IN /\ call' = [call EXCEPT !.fn = "WallPair",
                            !.obj = IF binds THEN Len(heap) + 1 ELSE 0,
                            !.args = [has_ridge |-> has_ridge,
                                      ridge |-> SubSeq(dims, 2, 6)]]
             /\ heap' = IF binds
                        THEN Append(heap, WallPair(dims[1], dims[2], dims[3],
                                                   dims[4], dims[5], dims[6]))
                        ELSE heap
             /\ error' = IF binds THEN "" ELSE "TypeError"
             /\ pc' = IF binds THEN "built" ELSE "raised"
    /\ UNCHANGED <<manager, runs>>
    /\ UNCHANGED engineVars

\* __WallPair(width, angle, has_ridge, ridge_width, ridge_height,
\* ridge_thickness): the constructor that takes the ridge flag
ConstructLegacyWallPair ==
    /\ pc = "start"
    /\ \E dims \in [1..5 -> 0..MaxGene], has_ridge \in BOOLEAN :
          /\ heap' = Append(heap, LegacyWallPair(dims[1], dims[2], has_ridge,
                                                 dims[3], dims[4], dims[5]))
          /\ call' = [call EXCEPT !.fn = "__WallPair", !.obj = Len(heap) + 1,
                         !.args = [has_ridge |-> has_ridge,
                                   ridge |-> SubSeq(dims, 3, 5)]]
    /\ error' = ""
    /\ pc' = "built"
    /\ UNCHANGED <<manager, runs>>
    /\ UNCHANGED engineVars

\* the walls arguments tried: None, or a list of up to two items, each an
\* object made before or the int 0
WallsArguments ==
    {NoneList} \cup
    {List(items) : items \in UNION {[1..n -> {0} \cup DOMAIN heap] : n \in 0..2}}

\* Genotype(cfg, height, waveguide_height, waveguide_length, walls), as in
\* test_constructor and test_constructor_invalid_items_in_walls_list
ConstructGenotype ==
    /\ pc \in {"start", "built"}
    /\ \E cfg \in GenoCfgs, walls \in WallsArguments,
          height, waveguide_height, waveguide_length \in 0..MaxGene :
          LET r == GenotypeInit(heap, cfg, height, waveguide_height,
                                waveguide_length, walls)
          IN /\ heap' = r.heap
             /\ error' = r.error
             /\ call' = [call EXCEPT !.fn = "Genotype", !.obj = r.obj,
                            !.args = [cfg |-> cfg, height |-> height,
                                      waveguide_height |-> waveguide_height,
                                      waveguide_length |-> waveguide_length,
                                      walls |-> walls]]
             /\ pc' = IF r.error = "" THEN "constructed" ELSE "raised"
    /\ UNCHANGED <<manager, runs>>
    /\ UNCHANGED engineVars

GenoNext ==
    \/ Generate
    \/ Mutate
    \/ NewPhenotype
    \/ MakeOffspring
    \/ ConstructWallPair
    \/ ConstructLegacyWallPair
    \/ ConstructGenotype

SpecGeno == GenoInit /\ [][GenoNext]_vars

\* ------------------------------------------ two runs from the same seed
\* runs[r]: the r-th of two program runs.  Both make the same call,
\* Genotype(cfg).generate(NumWallPairs, random.Random(seed)); seed is the
\* stream that Random(seed) delivers, the same in both runs, and global is
\* what the module-level random of each process delivers to the calls
\* random.randint(0, 1) of generate_list, which each run finds in a state of
\* its own.
RunsCfg == Cfg(RateScale, MaxEffect, 0, "NSGAII")

RunsInit ==
    /\ IdleEngine
    /\ heap = <<>>
    /\ manager = NoManager
    /\ error = ""
    /\ call = [fn |-> "", obj |-> 0, muts |-> 0, args |-> <<>>]
    /\ pc = "start"
    /\ \E stream \in SeedStreams(StreamLen) :
          \E global \in [1..2 -> [1..NumWallPairs -> 0..1]] :
             runs = [r \in 1..2 |-> [seed |-> stream, global |-> global[r],
                                     done |-> FALSE, out |-> <<>>]]

\* run r makes its call
RunGenerate(r) ==
    /\ ~runs[r].done
    /\ runs' = [runs EXCEPT
                  ![r].done = TRUE,
                  ![r].out = generate(RunsCfg, NumWallPairs, runs[r].seed, 1,
                                      runs[r].global)]
    /\ UNCHANGED <<heap, manager, error, call, pc>>
    /\ UNCHANGED engineVars

RunsNext == \E r \in 1..2 : RunGenerate(r)

SpecRuns == RunsInit /\ [][RunsNext]_vars

\* --------------------------------------------------------- Manager.py
\* the configurations handed to a Manager
ManagerCfgs ==
    {Cfg(RateScale, MaxEffect, n, s) :
        n \in 0..MaxPop, s \in {"NSGAII", "Tournament"}}

\* selection_scheme_convert_dict
selection_scheme_convert_dict == {"NSGAII"}

\* new_child_id = generation_num * pop_size + i
new_child_id(g, pop_size, i) == g * pop_size + i

\* mutant: every individual is given the identifier str(0)
RECURSIVE InitializeLoopSameId(_, _, _, _, _, _, _)
InitializeLoopSameId(h, pop, individual, cfg, stream, pos, coins) ==
    IF individual >= cfg.population_size
    THEN [heap |-> h, population |-> pop, pos |-> pos]
    ELSE Only({Only({
           InitializeLoopSameId(
               Append(r.heap, Phenotype(r.obj, StrId(0), NoneText, 0)),
               Append(pop, Len(r.heap) + 1),
               individual + 1, cfg, stream, g.pos, coins) :
             r \in {StoreGenotype(h, cfg, g)}}) :
             g \in {generate(cfg, NumWallPairs, stream, pos,
                             coins[individual + 1])}})

\* "for individual in range(pop_size)" of initialize_population from
\* individual on: g = Genotype(cfg).generate(2, self.rand),
\* p = Phenotype(g, str(individual), "None", 0), self.population.append(p);
\* coins[individual + 1] is what the module-level random delivers to the
\* generate call of the individual
RECURSIVE InitializeLoop(_, _, _, _, _, _, _)
InitializeLoop(h, pop, individual, cfg, stream, pos, coins) ==
    IF individual >= cfg.population_size
    THEN [heap |-> h, population |-> pop, pos |-> pos]
    ELSE Only({Only({
           InitializeLoop(
               Append(r.heap, Phenotype(r.obj, StrId(individual), NoneText, 0)),
               Append(pop, Len(r.heap) + 1),
               individual + 1, cfg, stream, g.pos, coins) :
             r \in {StoreGenotype(h, cfg, g)}}) :
             g \in {generate(cfg, NumWallPairs, stream, pos,
                             coins[individual + 1])}})

\* mutant: the loop skips the individual 0
InitializePopulationFromOne(h, pop, cfg, rand, coins) ==
    InitializeLoop(h, pop, 1, cfg, rand.stream, rand.pos, coins)

\* Manager.initialize_population on heap h, with self.population = pop and
\* self.rand = rand
initialize_population(h, pop, cfg, rand, coins) ==
    InitializeLoop(h, pop, 0, cfg, rand.stream, rand.pos, coins)

ManagerInit ==
    /\ IdleEngine
    /\ heap = <<>>
    /\ manager = NoManager
    /\ runs = <<>>
    /\ error = ""
    /\ call = [fn |-> "", obj |-> 0, muts |-> 0, args |-> <<>>]
    /\ pc = "start"

\* Manager(cfg); stream is what random.Random(self.seed) delivers
ConstructManager ==
    /\ pc = "start"
    /\ \E cfg \in ManagerCfgs, stream \in SeedStreams(ManagerStreamLen) :
          /\ call' = [call EXCEPT !.fn = "Manager", !.args = [cfg |-> cfg]]
          /\ IF cfg.selection_scheme \notin selection_scheme_convert_dict
             THEN /\ error' = "ValueError"
                  /\ manager' = manager
                  /\ pc' = "raised"
             ELSE /\ error' = ""
                  /\ manager' = [population |-> <<>>, seed |-> ManagerSeed,
                                 selection_scheme |-> cfg.selection_scheme,
                                 rand |-> [stream |-> stream, pos |-> 1]]
                  /\ pc' = "managed"
    /\ UNCHANGED <<heap, runs>>
    /\ UNCHANGED engineVars

\* manager.initialize_population(cfg)
InitializePopulation ==
    /\ pc = "managed"
    /\ \E cfg \in ManagerCfgs :
          \E coins \in [1..cfg.population_size ->
                           [1..NumWallPairs -> 0..1]] :
             LET r == initialize_population(heap, manager.population, cfg,
                                           manager.rand, coins)
             IN /\ heap' = r.heap
                /\ manager' = [manager EXCEPT !.population = r.population,
                                              !.rand.pos = r.pos]
                /\ call' = [call EXCEPT !.fn = "initialize_population",
                                        !.args = [cfg |-> cfg]]
    /\ error' = ""
    /\ pc' = "initialized"
    /\ UNCHANGED runs
    /\ UNCHANGED engineVars

\* manager.evolve_one_gen(generation_num), as in the loop of main:
\* self.selection_scheme.evolve(self.population, generation_num) leaves out
\* the rand that NSGA2.evolve requires, the TypeError leaves evolve_one_gen
\* before self.population is assigned
EvolveOneGen ==
    /\ pc = "initialized"
    /\ generation_num < MaxGen
    /\ ~CallBinds(EvolveParams, EvolveOneGenArgs)
    /\ generation_num' = generation_num + 1
    /\ call' = [call EXCEPT !.fn = "evolve_one_gen"]
    /\ error' = "TypeError"
    /\ pc' = "initialized"
    /\ UNCHANGED objVars
    /\ UNCHANGED <<population, fitness, nsgaii_rank, nsgaii_distance,
                   domination_count, dominated_set, fronts, offspring,
                   new_pop>>

ManagerNext ==
    \/ ConstructManager
    \/ InitializePopulation
    \/ EvolveOneGen

SpecManager == ManagerInit /\ [][ManagerNext]_vars

\* ================================================================ claims
\* Pareto dominance as the specification words it (minimisation)
ParetoDominates(p, q) ==
    /\ \A o \in DOMAIN fitness[p] : fitness[p][o] <= fitness[q][o]
    /\ \E o \in DOMAIN fitness[p] : fitness[p][o] < fitness[q][o]

EvolveEnded == pc \in {"raised", "returned"}
Combined == Range(population) \cup Range(offspring)
Kept == Range(new_pop)
Discarded == Combined \ Kept

\* C1: for every scored population of N >= 1 individuals, evolve returns a
\* population of exactly N individuals.
C1_EvolveReturnsN ==
    (EvolveEnded /\ Len(population) >= 1)
        => (pc = "returned" /\ Len(new_pop) = Len(population))

\* C2: elitism: evolve returns a population in which no kept individual has a
\* strictly higher rank, in the ranking of the combined set, than a discarded one.
C2_EvolveElitism ==
    (EvolveEnded /\ Len(population) >= 1)
        => /\ pc = "returned"
           /\ \A k \in Kept, d \in Discarded : nsgaii_rank[k] <= nsgaii_rank[d]

\* C3: truncation: evolve returns whole fronts in ascending rank order while
\* they fit, fills the remaining slots from the first front that overflows with
\* members whose crowding distance is no smaller than that of any discarded
\* member of that front, and takes nothing from later fronts.
C3_EvolveTruncation ==
    (EvolveEnded /\ Len(population) >= 1)
        => /\ pc = "returned"
           /\ Len(new_pop) = Len(population)
           /\ \A i, j \in DOMAIN new_pop :
                i < j => nsgaii_rank[new_pop[i]] <= nsgaii_rank[new_pop[j]]
           /\ \A k \in Kept, d \in Discarded :
                /\ nsgaii_rank[k] <= nsgaii_rank[d]
                /\ nsgaii_rank[k] = nsgaii_rank[d]
                     => ~RLess(nsgaii_distance[k], nsgaii_distance[d])

Sorted == pc \in {"sorted", "crowded", "ranked"}

\* C4: the k-th front returned by fast_non_dominated_sort holds exactly rank k
\* (so rank strictly increases from front to front), and no two members of one
\* front dominate each other.
C4_FrontsRankedAndMutuallyNonDominated ==
    Sorted =>
        \A k \in DOMAIN fronts :
            \A x \in Range(fronts[k]) :
                /\ nsgaii_rank[x] = k - 1
                /\ \A y \in Range(fronts[k]) : ~ParetoDominates(x, y)

C4_Witness ==
    /\ pc = "sorted"
    /\ Len(fronts) >= 2
    /\ \E k \in DOMAIN fronts : Len(fronts[k]) >= 2

NonDominated ==
    {x \in Range(population) : \A y \in Range(population) : ~ParetoDominates(y, x)}

\* C5: front 0 is exactly the set of individuals that nobody in the population
\* dominates, and each of them has rank 0.
C5_FrontZeroIsTheNonDominatedSet ==
    Sorted =>
        /\ (fronts = <<>>) <=> (NonDominated = {})
        /\ fronts # <<>> => /\ Range(fronts[1]) = NonDominated
                            /\ Len(fronts[1]) = Cardinality(NonDominated)
        /\ \A x \in NonDominated : nsgaii_rank[x] = 0

C5_Witness ==
    /\ pc = "sorted"
    /\ Cardinality(NonDominated) >= 2
    /\ NonDominated # Range(population)

\* C6: the fixture of seven individuals sorts into exactly three fronts:
\* individuals 1, 2, 3, 7, then 4, 5, then 6.
C6_ScenarioFronts ==
    (pc = "sorted" /\ fitness = ScenarioFitness) =>
        /\ Len(fronts) = 3
        /\ Range(fronts[1]) = {1, 2, 3, 7} /\ Len(fronts[1]) = 4
        /\ Range(fronts[2]) = {4, 5} /\ Len(fronts[2]) = 2
        /\ Range(fronts[3]) = {6} /\ Len(fronts[3]) = 1

C6_Witness == pc = "sorted" /\ fitness = ScenarioFitness /\ Len(fronts) = 3

DominatesCalled == pc = "called" /\ call.fn = "dominates"

\* C7: dominates(p, q) is true exactly when p is no worse than q on every
\* objective and strictly better on at least one; dominates(p, p) is false.
C7_DominatesIsParetoDominance ==
    DominatesCalled =>
        /\ call.val <=> ParetoDominates(call.p, call.q)
        /\ call.p = call.q => ~call.val

C7_Witness ==
    /\ DominatesCalled /\ call.val /\ call.p # call.q
    /\ \E o \in DOMAIN fitness[call.p] : fitness[call.p][o] = fitness[call.q][o]

\* C8: dominance is antisymmetric: dominates(p, q) and dominates(q, p) are never
\* both true.
C8_DominatesAntisymmetric ==
    /\ \A p, q \in Range(population) : ~(dominates(p, q) /\ dominates(q, p))
    /\ (DominatesCalled /\ call.val) => ~dominates(call.q, call.p)

C8_Witness ==
    /\ DominatesCalled /\ call.val /\ ~dominates(call.q, call.p)
    /\ \A o \in DOMAIN fitness[call.p] : fitness[call.p][o] < fitness[call.q][o]

CrowdingCalled == pc = "called" /\ call.fn = "crowding_distance_assignment"

\* C9: crowding_distance_assignment changes nothing on an empty front, sets the
\* distance of the one member of a front of one to +infinity, and sets both
\* distances of a front of two to +infinity whatever their scores.
C9_CrowdingSmallFronts ==
    /\ CrowdingCalled =>
        /\ call.p = 0 => /\ \A x \in DOMAIN nsgaii_distance :
                                nsgaii_distance[x] = NoDist
                         /\ fronts = << <<>> >>
        /\ call.p \in {1, 2} =>
              /\ \A i \in 1..Len(population) :
                    nsgaii_distance[population[i]] =
                        IF i <= call.p THEN Inf ELSE NoDist
              /\ fronts = <<SubSeq(population, 1, call.p)>>
    /\ pc \in {"crowded", "ranked"} =>
        \A k \in DOMAIN fronts :
            Len(fronts[k]) <= 2 =>
                \A x \in Range(fronts[k]) : nsgaii_distance[x] = Inf

C9_Witness ==
    /\ CrowdingCalled /\ call.p = 2
    /\ fitness[population[1]] = fitness[population[2]]
    /\ Len(population) > 2

\* the fronts of the population, once crowding_distance_assignment has been
\* applied to each of them
CrowdedFronts == IF pc \in {"crowded", "ranked"} THEN Range(fronts) ELSE {}
Varies(front, o) ==
    \E x, y \in Range(front) : fitness[x][o] # fitness[y][o]
InCase10(front) ==
    /\ Len(front) >= 3
    /\ \E o \in DOMAIN fitness[front[1]] : Varies(front, o)

MinOf(front, o) ==
    CHOOSE v \in {fitness[x][o] : x \in Range(front)} :
        \A x \in Range(front) : v <= fitness[x][o]
MaxOf(front, o) ==
    CHOOSE v \in {fitness[x][o] : x \in Range(front)} :
        \A x \in Range(front) : v >= fitness[x][o]

AssignedFronts ==
    CrowdedFronts \cup (IF CrowdingCalled THEN {fronts[1]} ELSE {})
NumObjectives(front) == Cardinality(DOMAIN fitness[front[1]])
VaryingObjectives(front) ==
    {o \in DOMAIN fitness[front[1]] : Varies(front, o)}
SomeFinite(front) == \E x \in Range(front) : ~IsInf(nsgaii_distance[x])

SelectOneReturned == pc = "selected" /\ call.fn = "select_one"

\* C12: select_one draws two distinct individuals of the pool and returns one
\* of the two: the one of lower rank; at equal ranks the one of higher crowding
\* distance; at equal rank and distance the one the RNG's choice picks.  It
\* never returns an individual other than the two sampled.
C12_SelectOneTournament ==
    SelectOneReturned =>
        LET i1 == call.sample[1]
            i2 == call.sample[2]
        IN /\ i1 # i2
           /\ {i1, i2} \subseteq Range(population)
           /\ call.val \in {i1, i2}
           /\ \A w \in {i1, i2} : \A l \in {i1, i2} :
                 /\ nsgaii_rank[w] < nsgaii_rank[l] => call.val = w
                 /\ (nsgaii_rank[w] = nsgaii_rank[l]
                       /\ RLess(nsgaii_distance[l], nsgaii_distance[w]))
                      => call.val = w
           /\ (nsgaii_rank[i1] = nsgaii_rank[i2]
                 /\ nsgaii_distance[i1] = nsgaii_distance[i2])
                => (call.choice \in {i1, i2} /\ call.val = call.choice)

C12_Witness ==
    /\ SelectOneReturned
    /\ Len(population) >= 3
    /\ nsgaii_rank[call.sample[1]] > nsgaii_rank[call.sample[2]]
    /\ RLess(nsgaii_distance[call.sample[2]], nsgaii_distance[call.sample[1]])
    /\ call.val = call.sample[2]

\* ------------------------------------------------------------------ C13
\* the objects reachable from the Phenotype at address p: the Phenotype, its
\* Genotype and the wall pairs of its list
Reachable(h, p) ==
    {p, h[p].genotype} \cup Range(h[h[p].genotype].walls.items)

\* C13: make_offspring leaves the parent unchanged.  Over the step of a
\* make_offspring call, every object that existed before the call (the parent
\* Phenotype with its identifiers and fitness, its Genotype with every scalar
\* gene, and every wall pair with every field) is the same after it, and the
\* offspring, its Genotype and its wall pairs are objects that did not exist
\* before the call.
C13_MakeOffspringLeavesParent ==
    [][(pc = "wrapped" /\ call'.fn = "make_offspring") =>
          /\ Len(heap') > Len(heap)
          /\ \A a \in DOMAIN heap : heap'[a] = heap[a]
          /\ Reachable(heap', call'.args[1]) \cap DOMAIN heap = {}]_vars

\* a make_offspring call has ended on a parent with a wall pair; the offspring
\* is another object than the parent and carries its own identifiers
C13_Witness ==
    /\ pc = "raised"
    /\ call.fn = "make_offspring"
    /\ heap[heap[call.obj].genotype].walls.items # <<>>
    /\ call.args[1] # call.obj
    /\ heap[call.args[1]].parent_id = heap[call.obj].indv_id
    /\ heap[call.args[1]].indv_id # heap[call.obj].indv_id
    /\ heap[call.obj].parent_id = NoneText

\* ------------------------------------------------------------------ C14
\* C14: in evolve with generation index g and population size N, there is an
\* offspring for each slot i in 0..N-1 and the offspring of slot i has the
\* identifier g*N + i.
C14_OffspringIdentifiers ==
    (EvolveEnded /\ Len(population) >= 1)
        => /\ Len(offspring) = Len(population)
           /\ \A i \in DOMAIN offspring :
                offspring[i] = generation_num * Len(population) + (i - 1)

\* ------------------------------------------------------------------ C15
\* the Genotype that generate returned and mutate was called on
Generated == pc = "generated" /\ call.fn \in {"generate", "mutate"}
Within(v, lo, hi) == lo <= v /\ v <= hi

\* C15: bound safety.  After generate and after any number of mutate calls
\* with per_site_mut_rate in [0, 1] and a positive mut_effect_size, height,
\* waveguide_height and waveguide_length of the Genotype, and angle,
\* ridge_height, ridge_width_top, ridge_width_bottom, ridge_thickness_top and
\* ridge_thickness_bottom of each of its wall pairs lie within [min, max].
C15_BoundSafety ==
    Generated =>
        LET g == heap[call.obj]
        IN /\ Within(g.height, g.cfg.MIN_HEIGHT, g.cfg.MAX_HEIGHT)
           /\ Within(g.waveguide_height, g.cfg.MIN_WAVEGUIDE_HEIGHT,
                     g.cfg.MAX_WAVEGUIDE_HEIGHT)
           /\ Within(g.waveguide_length, g.cfg.MIN_WAVEGUIDE_LENGTH,
                     g.cfg.MAX_WAVEGUIDE_LENGTH)
           /\ \A a \in Range(g.walls.items) :
                /\ Within(heap[a].angle, MIN_ANGLE, MAX_ANGLE)
                /\ Within(heap[a].ridge_height, MIN_RIDGE_HEIGHT,
                          MAX_RIDGE_HEIGHT)
                /\ Within(heap[a].ridge_width_top, MIN_RIDGE_WIDTH_TOP,
                          MAX_RIDGE_WIDTH_TOP)
                /\ Within(heap[a].ridge_width_bottom, MIN_RIDGE_WIDTH_BOTTOM,
                          MAX_RIDGE_WIDTH_BOTTOM)
                /\ Within(heap[a].ridge_thickness_top, MIN_RIDGE_THICKNESS_TOP,
                          MAX_RIDGE_THICKNESS_TOP)
                /\ Within(heap[a].ridge_thickness_bottom,
                          MIN_RIDGE_THICKNESS_BOTTOM,
                          MAX_RIDGE_THICKNESS_BOTTOM)

\* ------------------------------------------------------------------ C16
\* C16: in every reachable state of a wall pair (after construction, after
\* generate_with_ridge or generate_without_ridge, and after any number of
\* mutations), has_ridge is true only if ridge_height, ridge_width_top,
\* ridge_width_bottom, ridge_thickness_top and ridge_thickness_bottom are all
\* strictly positive.
C16_RidgeOnlyWithPositiveDimensions ==
    \A a \in DOMAIN heap :
        (heap[a].cls = "WallPair" /\ heap[a].has_ridge)
            => /\ heap[a].ridge_height > 0
               /\ heap[a].ridge_width_top > 0
               /\ heap[a].ridge_width_bottom > 0
               /\ heap[a].ridge_thickness_top > 0
               /\ heap[a].ridge_thickness_bottom > 0

\* ------------------------------------------------------------------ C17
GenotypeCalled == pc \in {"constructed", "raised"} /\ call.fn = "Genotype"
\* the walls argument is a sequence with an element that is not a WallPair
InvalidWalls(walls) ==
    /\ ~walls.is_none
    /\ \E i \in DOMAIN walls.items :
          ~(walls.items[i] \in DOMAIN heap
            /\ heap[walls.items[i]].cls = "WallPair")

\* C17: constructing a Genotype with a walls sequence that contains an element
\* that is not a WallPair raises ValueError and yields no Genotype;
\* constructing it with walls that are all WallPair objects, with an empty
\* list or with no walls succeeds and stores cfg, height, waveguide_height,
\* waveguide_length and walls as given.
C17_GenotypeConstruction ==
    GenotypeCalled =>
        IF InvalidWalls(call.args.walls)
        THEN /\ pc = "raised"
             /\ error = "ValueError"
             /\ call.obj = 0
             /\ \A a \in DOMAIN heap : heap[a].cls # "Genotype"
        ELSE /\ pc = "constructed"
             /\ error = ""
             /\ call.obj = Len(heap)
             /\ heap[call.obj].cls = "Genotype"
             /\ heap[call.obj].cfg = call.args.cfg
             /\ heap[call.obj].height = call.args.height
             /\ heap[call.obj].waveguide_height = call.args.waveguide_height
             /\ heap[call.obj].waveguide_length = call.args.waveguide_length
             /\ heap[call.obj].walls = call.args.walls

\* the constructor has raised on a list that holds a WallPair and an int
C17_Witness ==
    /\ pc = "raised"
    /\ call.fn = "Genotype"
    /\ error = "ValueError"
    /\ Len(call.args.walls.items) = 2
    /\ IsWallPair(heap, call.args.walls.items[1])
    /\ call.args.walls.items[2] = 0

\* ------------------------------------------------------------------ C18
\* a wall pair constructor was called with ridge presence requested and a
\* ridge dimension that is not positive
RidgeRequestedWithoutRidge ==
    /\ pc \in {"built", "raised"}
    /\ call.fn \in {"WallPair", "__WallPair"}
    /\ call.args.has_ridge
    /\ \E i \in DOMAIN call.args.ridge : call.args.ridge[i] <= 0

\* C18: constructing a wall pair that requests ridge presence while a ridge
\* dimension is non-positive fails at construction with the error of an
\* invalid Genotype construction (ValueError) and yields no wall pair.
C18_RidgeRequestValidated ==
    RidgeRequestedWithoutRidge
        => /\ pc = "raised"
           /\ error = "ValueError"
           /\ call.obj = 0

\* ------------------------------------------------------------------ C19
\* C19: determinism.  Two runs started from the same seed that make the same
\* calls produce identical results, whatever the state of the global random
\* source of each.
C19_SameSeedSameResult ==
    (Len(runs) = 2 /\ runs[1].done /\ runs[2].done /\
     runs[1].seed = runs[2].seed)
        => runs[1].out = runs[2].out

\* ------------------------------------------------------------------ C20
\* C20: population cardinality.  After Manager.initialize_population(cfg)
\* and after any number of Manager.evolve_one_gen calls, the Manager's
\* population holds exactly cfg.population_size individuals.
C20_PopulationCardinality ==
    (pc = "initialized" /\ call.fn \in {"initialize_population",
                                        "evolve_one_gen"})
        => /\ Len(manager.population) = call.args.cfg.population_size
           /\ \A i \in DOMAIN manager.population :
                heap[manager.population[i]].cls = "Phenotype"
           /\ \A i, j \in DOMAIN manager.population :
                manager.population[i] = manager.population[j] => i = j

\* two evolve_one_gen calls have been made on a population of two or more
C20_Witness ==
    /\ pc = "initialized"
    /\ call.fn = "evolve_one_gen"
    /\ generation_num = 2
    /\ call.args.cfg.population_size >= 2
    /\ Len(manager.population) >= 2

\* ------------------------------------------------------------------ C21
\* the population as the caller handed it to evolve: the list in its order,
\* and on every individual no rank and no crowding distance yet
PriorPopulation ==
    /\ population = [i \in DOMAIN fitness |-> i]
    /\ \A x \in Range(population) :
          /\ nsgaii_rank[x] = NoRank
          /\ nsgaii_distance[x] = NoDist

\* C21: if a generational step (evolve) fails, the caller's prior population
\* is left untouched: the list and the rank and diversity of every individual
\* in it are as they were before the call.
C21_FailedEvolveLeavesPopulation ==
    pc = "raised" => PriorPopulation

\* ------------------------------------------------------------------ C22
\* C22: every individual of the population that evolve returns carries a rank
\* and a diversity value, and the rank-0 members of the returned population
\* are exactly those that no other member of it dominates.
C22_ReturnedPopulationRanked ==
    (EvolveEnded /\ Len(population) >= 1)
        => /\ pc = "returned"
           /\ new_pop # <<>>
           /\ \A x \in Kept :
                /\ nsgaii_rank[x] # NoRank
                /\ nsgaii_distance[x] # NoDist
                /\ nsgaii_rank[x] = 0
                     <=> ~\E y \in Kept : ParetoDominates(y, x)

\* ------------------------------------------------------------------ C23
\* the places <<k, i>> of the fronts at which the individual x stands
PlacesOf(x) ==
    {ki \in (DOMAIN fronts) \X (1..Len(population)) :
        ki[2] <= Len(fronts[ki[1]]) /\ fronts[ki[1]][ki[2]] = x}

CalledFront == SubSeq(population, 1, call.p)
\* the members' distances set to 0 (Evolver.py:138-139)
ZeroedFor(front) ==
    [x \in DOMAIN nsgaii_distance |-> IF x \in Range(front) THEN Zero ELSE NoDist]
\* the front and the distances after the first k objective passes of the call
AfterPasses(k) ==
    ObjectiveLoop(SubSeq(Keys(fitness[CalledFront[1]]), 1, k), CalledFront,
                  ZeroedFor(CalledFront))
NonNegative(d) == IsInf(d) \/ (d.d > 0 /\ d.n >= 0)

\* C24: after crowding_distance_assignment on a non-empty front every member's
\* distance is a non-negative finite value or +infinity, and a member whose
\* distance is +infinity after some objective pass of the call has +infinity
\* when the call returns.
C24_DistancesNonNegativeInfinityKept ==
    /\ \A front \in AssignedFronts :
          \A x \in Range(front) : NonNegative(nsgaii_distance[x])
    /\ (CrowdingCalled /\ Len(CalledFront) > num_for_double_front) =>
          \A k \in 1..Cardinality(DOMAIN fitness[CalledFront[1]]) :
              \A x \in Range(CalledFront) :
                  IsInf(AfterPasses(k).dist[x]) => IsInf(nsgaii_distance[x])

\* a member made a boundary point by the first objective pass stands between
\* two others in the second pass, over an objective that varies on the front
C24_Witness ==
    /\ CrowdingCalled
    /\ Len(CalledFront) > num_for_double_front
    /\ Cardinality(DOMAIN fitness[CalledFront[1]]) = 2
    /\ \E x \in Range(CalledFront) :
          LET first == AfterPasses(1)
              o == Keys(fitness[CalledFront[1]])[2]
              s == SortByObjective(first.front, o)
          IN /\ IsInf(first.dist[x])
             /\ Varies(CalledFront, o)
             /\ \E i \in 2..(Len(s) - 1) : s[i] = x
             /\ IsInf(nsgaii_distance[x])

\* ------------------------------------------------------------------ C25
\* a step of g.mutate(rand); call'.args holds what the RNG delivered
MutateStep ==
    /\ pc = "generated"
    /\ call'.fn = "mutate"
    /\ call'.muts = call.muts + 1
\* the site of gene j of the k-th wall pair in the order of the draws
WallSite(k, j) == Len(CoreGenes) + (k - 1) * Len(WallPairGenes) + j

\* C25: mutate has no cross-field coupling: a field of a wall pair whose own
\* trial did not succeed is not written by the call; in particular a call
\* that perturbs ridge_thickness_bottom alone leaves ridge_width_bottom as it
\* was.
C25_NoCrossFieldCoupling ==
    [][MutateStep =>
          LET g == heap[call.obj]
          IN \A k \in DOMAIN g.walls.items : \A j \in DOMAIN WallPairGenes :
                ~Hit(g.cfg.per_site_mut_rate, call'.args[WallSite(k, j)])
                    => heap'[g.walls.items[k]][WallPairGenes[j]]
                          = heap[g.walls.items[k]][WallPairGenes[j]]]_vars

\* ------------------------------------------------------------------ C27
\* C27: with per_site_mut_rate = 0 a mutate call leaves every scalar field of
\* the Genotype and every field of its wall pairs unchanged, whatever the RNG
\* delivers.
C27_ZeroRateLeavesGenotype ==
    [][(MutateStep /\ heap[call.obj].cfg.per_site_mut_rate = 0)
          => heap' = heap]_vars

\* ------------------------------------------------------------------ C26
\* C26: evolve does not mutate an individual in place: the input population
\* list keeps its members in their order with their fitness mappings, and the
\* population that evolve returns consists of members of the input population
\* and of offspring created in the call, none of them twice.
C26_EvolveKeepsInputAndReturnsCombined ==
    (EvolveEnded /\ Len(population) >= 1)
        => /\ population = [i \in DOMAIN fitness |-> i]
           /\ pc = "returned"
           /\ new_pop # <<>>
           /\ Kept \subseteq Combined
           /\ IsInjective(new_pop)

\* ------------------------------------------------------------------ C28
\* C28: the re-ranking of the combined set in evolve takes in one offspring
\* per slot, each of them an individual of its own (not a member of the input
\* population) whose fitness mapping the fitness provider populated, as it did
\* for every member of the input population.
C28_OffspringRankedOnOwnFitness ==
    (EvolveEnded /\ Len(population) >= 1)
        => /\ Range(population) \subseteq DOMAIN fitness
           /\ Len(offspring) = Len(population)
           /\ Range(offspring) \cap Range(population) = {}
           /\ \A x \in Range(offspring) :
                 /\ x \in DOMAIN fitness
                 /\ nsgaii_rank[x] # NoRank

\* ------------------------------------------------------------------ C29
\* the identifiers of the Manager's population, in list order
PopulationIds ==
    [i \in DOMAIN manager.population |-> heap[manager.population[i]].indv_id]

Dominators(x) == {y \in Range(population) : ParetoDominates(y, x)}
\* the length of the longest chain of individuals dominating x
RECURSIVE Depth(_)
Depth(x) ==
    IF Dominators(x) = {} THEN 0
    ELSE LET ds == {Depth(y) : y \in Dominators(x)}
         IN 1 + CHOOSE d \in ds : \A e \in ds : e <= d

\* C30: every individual of a front after the first is dominated by a member
\* of the front before it and by no member of its own or of a later front, and
\* the rank of every individual of the population is the length of the longest
\* chain of individuals dominating it.
C30_RankIsLongestDominatingChain ==
    Sorted =>
        /\ \A k \in DOMAIN fronts : \A x \in Range(fronts[k]) :
              /\ k >= 2 => \E y \in Range(fronts[k - 1]) : ParetoDominates(y, x)
              /\ \A j \in k..Len(fronts) :
                    \A y \in Range(fronts[j]) : ~ParetoDominates(y, x)
        /\ \A x \in Range(population) : nsgaii_rank[x] = Depth(x)

\* an individual of the third front is dominated by a member of the first
\* front and by a member of the second
C30_Witness ==
    /\ pc = "sorted"
    /\ Len(fronts) >= 3
    /\ \E x \in Range(fronts[3]) :
          /\ \E y \in Range(fronts[1]) : ParetoDominates(y, x)
          /\ \E z \in Range(fronts[2]) : ParetoDominates(z, x)
          /\ nsgaii_rank[x] = 2
====
